---- MODULE Spec2Model ----
\* Model of netpacket/src/ip/packet.rs: the IPv4 / IPv6 packet decoders
\* (Ipv4Packet::from_bytes, Ipv6Packet::from_bytes, Packet::from_bytes), the
\* bit-field accessors of Ipv4Packet and the pseudo-header checksum methods.
\*
\* A call is one atomic action: the caller owns a byte buffer `buf`, calls a
\* decoder on it and keeps the outcome in `result`; a successfully decoded
\* value is kept in `packet` and the accessors are called on it.
EXTENDS Integers, Sequences, FiniteSets, TLC

\* buf: the caller's byte buffer; call: the method last called; result: what
\* the last decoder or checksum call produced; packet: the decoded value the
\* caller holds; ret: what the last accessor returned; optionsCalls: how many
\* times the last decode invoked Options::from_bytes; optionsResult: what
\* Options::from_bytes returns on &buf[20..], a function of the buffer that
\* is fixed, and unknown, for each buffer.
VARIABLES buf, call, result, packet, ret, optionsCalls, optionsResult

----------------------------------------------------------------------------
\* Bounds of the model.

\* Longest input buffer.
MaxLen == 25
\* Largest length the options parser reports.
MaxOptionsLen == 4
\* How far the declared total_length lies from the buffer length.
MaxSkew == 1

----------------------------------------------------------------------------
\* Values.

NoValue == [variant |-> "None"]

\* ::std::io::Error::new(kind, msg)
IoError(kind, msg) == [kind |-> kind, msg |-> msg]

Ok(v)  == [tag |-> "Ok", val |-> v]
Err(e) == [tag |-> "Err", err |-> e]
\* An index out of bounds, an unwrap of None/Err, or unimplemented!():
\* the thread unwinds and the call returns nothing.
Panic(why) == [tag |-> "Panic", why |-> why]

\* Marker for a read outside the buffer.
OutOfBounds == -1

\* payload[i] (0-based)
Get(b, i) == IF i >= 0 /\ i < Len(b) THEN b[i + 1] ELSE OutOfBounds

\* &payload[from..]
SliceFrom(b, from) == SubSeq(b, from + 1, Len(b))

\* read_u16::<BigEndian>() over two bytes
ReadU16(hi, lo) == hi * 256 + lo

\* read_u32::<BigEndian>() over four bytes
ReadU32(b0, b1, b2, b3) == ((b0 * 256 + b1) * 256 + b2) * 256 + b3

\* format!("{:0w$b}", n): the binary digits of n, zero-padded to w characters
FormatBin(n, w) ==
    [i \in 1..w |-> IF (n \div (2 ^ (w - i))) % 2 = 1 THEN "1" ELSE "0"]

\* &s[from..to] on a string (0-based, to exclusive)
StrSlice(s, from, to) == SubSeq(s, from + 1, to)

RECURSIVE FromStrRadix2(_)
\* uN::from_str_radix(s, 2).unwrap()
FromStrRadix2(s) ==
    IF Len(s) = 0 THEN 0
    ELSE 2 * FromStrRadix2(SubSeq(s, 1, Len(s) - 1))
         + (IF s[Len(s)] = "1" THEN 1 ELSE 0)

\* Ipv4Packet::min_size()
min_size == 20

\* The error every failing check of Ipv4Packet::from_bytes builds.
SizeError == IoError("Other", "size error ...")

\* The error of the catch-all arm of Packet::from_bytes.
VersionError == IoError("Other", "IP Version Error!")

----------------------------------------------------------------------------
\* Options::from_bytes (super::Options).  The parser sees only the bytes
\* after the fixed header; it reports an error or an Options value of some
\* length.  Every length up to MaxOptionsLen is a possible report, whether or
\* not that many bytes are available.
OptionsError == IoError("Other", "options error")

OptionsFromBytesResults(rest) ==
    {Err(OptionsError)} \cup {Ok([len |-> n]) : n \in 0..MaxOptionsLen}

----------------------------------------------------------------------------
\* The checks of Ipv4Packet::from_bytes, in the order the code makes them.

\* payload.len() < Ipv4Packet::min_size()
TooShort(payload) == Len(payload) < min_size

\* (version_ihl >> 4) != 4
WrongVersion(version_ihl) == (version_ihl \div 16) # 4

\* ihl >= 5: the branch that runs the options parser
HasOptions(ihl) == ihl >= 5

\* payload.len() < (Ipv4Packet::min_size() + 2)
TooShortForOptions(payload) == Len(payload) < min_size + 2

\* Variant: the options length is not compared with the buffer length.
OptionsOverrun_unchecked(payload, ip_v4_options_length) == FALSE

\* payload.len() < (Ipv4Packet::min_size() + ip_v4_options_length)
OptionsOverrun(payload, ip_v4_options_length) ==
    Len(payload) < min_size + ip_v4_options_length

\* Variant: only a buffer shorter than declared is a mismatch.
LengthMismatch_shorter_only(payload, total_length) ==
    Len(payload) < total_length

\* payload.len() != total_length as usize
LengthMismatch(payload, total_length) == Len(payload) # total_length

\* Ipv4Packet::from_bytes.  optRes is what Options::from_bytes returns if it
\* is called.  The value is [res, optionsCalls]: the Result (or panic) of the
\* call, and how many times the options parser was invoked.
Ipv4FromBytes(payload, optRes) ==
    LET version_ihl == Get(payload, 0)
        ihl == FromStrRadix2(StrSlice(FormatBin(version_ihl, 8), 4, 8))
        dscp_ecn == Get(payload, 1)
        total_length == ReadU16(Get(payload, 2), Get(payload, 3))
        identification == ReadU16(Get(payload, 4), Get(payload, 5))
        flags_fragment_offset == ReadU16(Get(payload, 6), Get(payload, 7))
        time_to_live == Get(payload, 8)
        protocol == Get(payload, 9)
        header_checksum == ReadU16(Get(payload, 10), Get(payload, 11))
        src_ip == ReadU32(Get(payload, 12), Get(payload, 13),
                          Get(payload, 14), Get(payload, 15))
        dst_ip == ReadU32(Get(payload, 16), Get(payload, 17),
                          Get(payload, 18), Get(payload, 19))
        fixedReads == {Get(payload, i) : i \in 0..19}
        Finish(options, header_length) ==
            IF LengthMismatch(payload, total_length)
            THEN Err(SizeError)
            ELSE IF header_length > Len(payload)
            THEN Panic("payload[header_length..]")
            ELSE Ok([variant |-> "Ipv4Packet",
                     version_ihl |-> version_ihl,
                     dscp_ecn |-> dscp_ecn,
                     total_length |-> total_length,
                     identification |-> identification,
                     flags_fragment_offset |-> flags_fragment_offset,
                     time_to_live |-> time_to_live,
                     protocol |-> protocol,
                     header_checksum |-> header_checksum,
                     src_ip |-> src_ip,
                     dst_ip |-> dst_ip,
                     options |-> options,
                     payload |-> SliceFrom(payload, header_length)])
    IN  IF TooShort(payload)
        THEN [res |-> Err(SizeError), optionsCalls |-> 0]
        ELSE IF OutOfBounds \in fixedReads
        THEN [res |-> Panic("payload[i]"), optionsCalls |-> 0]
        ELSE IF WrongVersion(version_ihl)
        THEN [res |-> Err(SizeError), optionsCalls |-> 0]
        ELSE IF HasOptions(ihl)
        THEN IF TooShortForOptions(payload)
             THEN [res |-> Err(SizeError), optionsCalls |-> 0]
             ELSE IF 20 > Len(payload)
             THEN [res |-> Panic("payload[20..]"), optionsCalls |-> 0]
             ELSE IF optRes.tag = "Ok"
             THEN IF OptionsOverrun(payload, optRes.val.len)
                  THEN [res |-> Err(SizeError), optionsCalls |-> 1]
                  ELSE [res |-> Finish([variant |-> "Some", val |-> optRes.val],
                                       20 + optRes.val.len),
                        optionsCalls |-> 1]
             ELSE [res |-> Err(optRes.err), optionsCalls |-> 1]
        ELSE [res |-> Finish([variant |-> "None"], 20), optionsCalls |-> 0]

\* Ipv6Packet::from_bytes: prints a warning and hits unimplemented!().
Ipv6FromBytes(payload) == Panic("unimplemented")

\* Packet::from_bytes.
PacketFromBytes(payload, optRes) ==
    LET b0 == Get(payload, 0)
        ver == b0 \div 16
        v4 == Ipv4FromBytes(payload, optRes)
        v6 == Ipv6FromBytes(payload)
    IN  IF b0 = OutOfBounds
        THEN [res |-> Panic("payload[0]"), optionsCalls |-> 0]
        ELSE IF ver = 4
        THEN [res |-> IF v4.res.tag = "Ok"
                      THEN Ok([variant |-> "V4", packet |-> v4.res.val])
                      ELSE v4.res,
              optionsCalls |-> v4.optionsCalls]
        ELSE IF ver = 6
        THEN [res |-> IF v6.tag = "Ok"
                      THEN Ok([variant |-> "V6", packet |-> v6.val])
                      ELSE v6,
              optionsCalls |-> 0]
        ELSE [res |-> Err(VersionError), optionsCalls |-> 0]

----------------------------------------------------------------------------
\* Accessors of Ipv4Packet.

version(p) == p.version_ihl \div 16

ihl(p) == FromStrRadix2(StrSlice(FormatBin(p.version_ihl, 8), 4, 8))

dscp(p) == FromStrRadix2(StrSlice(FormatBin(p.dscp_ecn, 8), 0, 6))

ecn(p) == FromStrRadix2(StrSlice(FormatBin(p.dscp_ecn, 8), 6, 8))

total_length(p) == p.total_length

flags(p) == FromStrRadix2(StrSlice(FormatBin(p.flags_fragment_offset, 16), 0, 3))

\* Variant: the slice starts one character late, [4..16].
fragment_offset_12bits(p) ==
    FromStrRadix2(StrSlice(FormatBin(p.flags_fragment_offset, 16), 4, 16))

fragment_offset(p) ==
    FromStrRadix2(StrSlice(FormatBin(p.flags_fragment_offset, 16), 3, 16))

options(p) == p.options

payload(p) == p.payload

\* Options::len() of the options of a packet; 0 when there are none.
OptionsLen(p) == IF p.options.variant = "Some" THEN p.options.val.len ELSE 0

----------------------------------------------------------------------------
\* Input buffers.  Byte i of a buffer is i (so that two slices of a buffer
\* are equal only when they start at the same offset), except for byte 0
\* (version / IHL) and bytes 2..3 (total_length).

HighNibbles == {0, 4, 6, 7}

LowNibbles == {0, 4, 5, 6, 15}

Byte0s == {hi * 16 + lo : hi \in HighNibbles, lo \in LowNibbles}

\* A buffer of len bytes with version / IHL byte b0, DSCP / ECN byte b1,
\* declared total length tl and flags / fragment offset field ffo.
Buffer(len, b0, b1, tl, ffo) ==
    [i \in 1..len |->
        IF i = 1 THEN b0
        ELSE IF i = 2 THEN b1
        ELSE IF i = 3 THEN tl \div 256
        ELSE IF i = 4 THEN tl % 256
        ELSE IF i = 7 THEN ffo \div 256
        ELSE IF i = 8 THEN ffo % 256
        ELSE i - 1]

DeclaredLengths(len) ==
    {tl \in (len - MaxSkew)..(len + MaxSkew) : tl >= 0}

Buffers ==
    UNION {{Buffer(len, b0, 1, tl, 6 * 256 + 7) :
                b0 \in Byte0s, tl \in DeclaredLengths(len)} :
           len \in 0..MaxLen}

\* Buffers for the bit-field accessors: a 22-byte datagram with every
\* version / IHL byte, every DSCP / ECN byte and every flags / fragment
\* offset value, one field varied at a time.
BitsLen == 22

BitBuffers ==
    {Buffer(BitsLen, b0, 1, BitsLen, 6 * 256 + 7) : b0 \in 0..255}
    \cup {Buffer(BitsLen, 69, b1, BitsLen, 6 * 256 + 7) : b1 \in 0..255}
    \cup {Buffer(BitsLen, 69, 1, BitsLen, ffo) : ffo \in 0..65535}

----------------------------------------------------------------------------
\* State machine.

allVars == <<buf, call, result, packet, ret, optionsCalls, optionsResult>>

NoRet == [of |-> "none", val |-> 0]

Init ==
    /\ buf \in Buffers
    /\ optionsResult \in OptionsFromBytesResults(SliceFrom(buf, 20))
    /\ call = "none"
    /\ result = NoValue
    /\ packet = NoValue
    /\ ret = NoRet
    /\ optionsCalls = 0

InitBits ==
    /\ buf \in BitBuffers
    /\ optionsResult = Ok([len |-> 0])
    /\ call = "none"
    /\ result = NoValue
    /\ packet = NoValue
    /\ ret = NoRet
    /\ optionsCalls = 0

\* The caller keeps the value of a successful decode.
Decoded(name, r) ==
    /\ call' = name
    /\ result' = r.res
    /\ optionsCalls' = r.optionsCalls
    /\ packet' = IF r.res.tag = "Ok" THEN r.res.val ELSE NoValue
    /\ ret' = NoRet
    /\ UNCHANGED <<buf, optionsResult>>

Ipv4Packet_from_bytes ==
    Decoded("Ipv4Packet::from_bytes", Ipv4FromBytes(buf, optionsResult))

Ipv6Packet_from_bytes ==
    Decoded("Ipv6Packet::from_bytes",
            [res |-> Ipv6FromBytes(buf), optionsCalls |-> 0])

Packet_from_bytes ==
    Decoded("Packet::from_bytes", PacketFromBytes(buf, optionsResult))

\* The Ipv4Packet the caller holds, directly or inside Packet::V4.
HasIpv4 == packet.variant \in {"Ipv4Packet", "V4"}

Self == IF packet.variant = "V4" THEN packet.packet ELSE packet

Returned(name, v) ==
    /\ HasIpv4
    /\ call' = name
    /\ ret' = [of |-> name, val |-> v]
    /\ UNCHANGED <<buf, result, packet, optionsCalls, optionsResult>>

Call_version == Returned("version", version(Self))

Call_ihl == Returned("ihl", ihl(Self))

Call_dscp == Returned("dscp", dscp(Self))

Call_ecn == Returned("ecn", ecn(Self))

Call_total_length == Returned("total_length", total_length(Self))

Call_flags == Returned("flags", flags(Self))

Call_fragment_offset == Returned("fragment_offset", fragment_offset(Self))

Call_payload == Returned("payload", payload(Self))

\* Packet::tcp_ip_checksum, udp_ip_checksum, icmp_ip_checksum and
\* Ipv4Packet::verifying: each body is unimplemented!().
Unimplemented(name) ==
    /\ call' = name
    /\ result' = Panic("unimplemented")
    /\ ret' = NoRet
    /\ UNCHANGED <<buf, packet, optionsCalls, optionsResult>>

Call_tcp_ip_checksum ==
    /\ packet.variant \in {"V4", "V6"}
    /\ Unimplemented("tcp_ip_checksum")

Call_udp_ip_checksum ==
    /\ packet.variant \in {"V4", "V6"}
    /\ Unimplemented("udp_ip_checksum")

Call_icmp_ip_checksum ==
    /\ packet.variant \in {"V4", "V6"}
    /\ Unimplemented("icmp_ip_checksum")

Call_verifying ==
    /\ packet.variant = "Ipv4Packet"
    /\ Unimplemented("verifying")

Next ==
    \/ Ipv4Packet_from_bytes
    \/ Ipv6Packet_from_bytes
    \/ Packet_from_bytes
    \/ Call_version
    \/ Call_ihl
    \/ Call_dscp
    \/ Call_ecn
    \/ Call_total_length
    \/ Call_flags
    \/ Call_fragment_offset
    \/ Call_payload
    \/ Call_tcp_ip_checksum
    \/ Call_udp_ip_checksum
    \/ Call_icmp_ip_checksum
    \/ Call_verifying

Spec == Init /\ [][Next]_allVars

NextBits ==
    \/ Ipv4Packet_from_bytes
    \/ Call_version
    \/ Call_ihl
    \/ Call_dscp
    \/ Call_ecn
    \/ Call_flags
    \/ Call_fragment_offset

SpecBits == InitBits /\ [][NextBits]_allVars

----------------------------------------------------------------------------
\* Properties.

\* The buffer as the wire format reads it, by arithmetic on the bytes.
BufLen == Len(buf)

HighNibble == buf[1] \div 16

LowNibble == buf[1] % 16

DeclaredTotalLength == buf[3] * 256 + buf[4]

Ipv4Called == call = "Ipv4Packet::from_bytes"

PacketCalled == call = "Packet::from_bytes"

RECURSIVE BitOr(_, _)
\* a | b on naturals
BitOr(a, b) ==
    IF a = 0 THEN b
    ELSE IF b = 0 THEN a
    ELSE (IF a % 2 = 1 \/ b % 2 = 1 THEN 1 ELSE 0)
         + 2 * BitOr(a \div 2, b \div 2)

\* C1: a buffer of at least 20 bytes with version nibble 4, declared total
\* length equal to its length and IHL*4 within it decodes successfully, and
\* the payload is the buffer from offset IHL*4 on.
C1_PayloadStartsAtIhl ==
    (/\ Ipv4Called
     /\ BufLen >= 20
     /\ HighNibble = 4
     /\ DeclaredTotalLength = BufLen
     /\ LowNibble * 4 <= BufLen)
    => /\ result.tag = "Ok"
       /\ payload(result.val) = SliceFrom(buf, LowNibble * 4)

\* C2: Packet::from_bytes ends with a decoded Packet or a returned error for
\* every buffer; it never panics.
C2_PacketDecodeNeverPanics ==
    PacketCalled => result.tag \in {"Ok", "Err"}

\* The version an error value carries; -1 when it carries none.
ErrorVersion(e) == IF "version" \in DOMAIN e THEN e.version ELSE -1

\* C3: Packet::from_bytes dispatches on the high nibble n of byte 0 only:
\* n = 4 gives the IPv4 decode's result wrapped as V4 (or its error), n = 6
\* the IPv6 decode's result wrapped as V6 (or its error), any other n an
\* UnsupportedVersion error that carries n; V4 comes only from nibble 4 and
\* V6 only from nibble 6.
C3_DispatchOnVersionNibble ==
    (PacketCalled /\ BufLen > 0) =>
        LET v4 == Ipv4FromBytes(buf, optionsResult).res
        IN  /\ HighNibble = 4 =>
                IF v4.tag = "Ok"
                THEN /\ result.tag = "Ok"
                     /\ result.val.variant = "V4"
                     /\ result.val.packet = v4.val
                ELSE result = v4
            /\ HighNibble = 6 => result = Ipv6FromBytes(buf)
            /\ HighNibble \notin {4, 6} =>
                /\ result.tag = "Err"
                /\ ErrorVersion(result.err) = HighNibble
            /\ result.tag = "Ok" =>
                /\ result.val.variant = "V4" => HighNibble = 4
                /\ result.val.variant = "V6" => HighNibble = 6

\* C4: the IPv4 decode rejects every buffer whose declared total_length
\* differs from its length, longer or shorter; a decoded header has
\* total_length() = buffer length and a payload of total_length minus the
\* header bytes (20 + options length).
C4_TotalLengthMatchesBuffer ==
    Ipv4Called =>
        /\ (BufLen >= 4 /\ DeclaredTotalLength # BufLen) => result.tag = "Err"
        /\ BufLen < 4 => result.tag = "Err"
        /\ result.tag = "Ok" =>
            /\ total_length(result.val) = BufLen
            /\ Len(payload(result.val))
                 = total_length(result.val) - (20 + OptionsLen(result.val))

\* A 24-byte datagram, IHL 5, no options reported, declared one byte longer
\* than it is: the length comparison is the only check that fails.
C4_Witness ==
    /\ Ipv4Called
    /\ BufLen = 24
    /\ buf[1] = 69
    /\ optionsResult = Ok([len |-> 0])
    /\ DeclaredTotalLength = BufLen + 1
    /\ result = Err(SizeError)

\* The error value the length check returns (any buffer under 20 bytes).
Truncated == Ipv4FromBytes(<<>>, Err(OptionsError)).res.err

\* The error value the version check returns (20 bytes, version nibble 0).
WrongVersionError ==
    Ipv4FromBytes(Buffer(20, 0, 0, 20, 0), Err(OptionsError)).res.err

\* C5: the IPv4 decode fails with the kind of the first violated check, and
\* the caller can tell the kinds apart: a buffer under 20 bytes gives
\* Truncated; a buffer of at least 20 bytes with a version nibble other than 4
\* gives WrongVersion, which is not Truncated; a buffer that passes both, has
\* no options region (IHL <= 5) and declares a total length other than its
\* own gives LengthMismatch, which is neither of the two.
C5_ErrorKindsDistinguishable ==
    Ipv4Called =>
        /\ BufLen < 20 => result = Err(Truncated)
        /\ (BufLen >= 20 /\ HighNibble # 4) =>
            /\ result = Err(WrongVersionError)
            /\ result.err # Truncated
        /\ (/\ BufLen >= 20
            /\ HighNibble = 4
            /\ LowNibble <= 5
            /\ DeclaredTotalLength # BufLen) =>
            /\ result.tag = "Err"
            /\ result.err \notin {Truncated, WrongVersionError}

\* C6: 20 bytes with version 4, IHL 5 and total_length 20 decode to a header
\* with no options and an empty payload; the options parser runs only when
\* IHL > 5.
C6_MinimalDatagramDecodes ==
    Ipv4Called =>
        /\ (BufLen = 20 /\ buf[1] = 69 /\ DeclaredTotalLength = 20) =>
            /\ result.tag = "Ok"
            /\ OptionsLen(result.val) = 0
            /\ payload(result.val) = <<>>
        /\ optionsCalls > 0 => LowNibble > 5

\* C7: every decoded IPv4 header has 20 + options length = IHL*4 and
\* IHL >= 5.
C7_HeaderLengthIsIhlWords ==
    (Ipv4Called /\ result.tag = "Ok") =>
        /\ 20 + OptionsLen(result.val) = ihl(result.val) * 4
        /\ ihl(result.val) >= 5

\* C8: for every decoded header the bit fields join back to the stored
\* values: (version << 4) | ihl is version_ihl; (dscp << 2) | ecn is dscp_ecn
\* with dscp < 64 and ecn < 4; (flags << 13) | fragment_offset is
\* flags_fragment_offset with flags < 8 and fragment_offset < 8192.  The
\* stored values are the bytes of the buffer.
C8_BitFieldsRoundTrip ==
    HasIpv4 =>
        /\ Self.version_ihl = buf[1]
        /\ Self.dscp_ecn = buf[2]
        /\ Self.flags_fragment_offset = buf[7] * 256 + buf[8]
        /\ BitOr(version(Self) * 16, ihl(Self)) = Self.version_ihl
        /\ BitOr(dscp(Self) * 4, ecn(Self)) = Self.dscp_ecn
        /\ dscp(Self) < 64
        /\ ecn(Self) < 4
        /\ BitOr(flags(Self) * 8192, fragment_offset(Self))
             = Self.flags_fragment_offset
        /\ flags(Self) < 8
        /\ fragment_offset(Self) < 8192
        /\ ret.of = "version" => ret.val = buf[1] \div 16
        /\ ret.of = "ihl" => ret.val = buf[1] % 16
        /\ ret.of = "dscp" => ret.val = buf[2] \div 4
        /\ ret.of = "ecn" => ret.val = buf[2] % 4
        /\ ret.of = "flags" => ret.val = buf[7] \div 32
        /\ ret.of = "fragment_offset" =>
             ret.val = (buf[7] % 32) * 256 + buf[8]

\* fragment_offset() returned 8191 for the field 0xFFFF.
C8_Witness ==
    /\ call = "fragment_offset"
    /\ buf[7] = 255
    /\ buf[8] = 255
    /\ ret.val = 8191
    /\ flags(Self) = 7

\* C9: the pseudo-header checksum operations return a value for every
\* decoded packet.
C9_ChecksumReturnsValue ==
    call \in {"tcp_ip_checksum", "udp_ip_checksum", "icmp_ip_checksum"}
        => result.tag # "Panic"

\* C10: Ipv4Packet::from_bytes indexes and slices within the buffer on every
\* path, whatever length the options parser reports: the call never panics,
\* and a decoded header's 20 + options length is at most the buffer length.
C10_IndicesInBounds ==
    Ipv4Called =>
        /\ result.tag # "Panic"
        /\ result.tag = "Ok" => 20 + OptionsLen(result.val) <= BufLen

\* The parser reported more option bytes than the buffer holds behind the
\* fixed header, in a datagram whose declared length is right.
C10_Witness ==
    /\ Ipv4Called
    /\ optionsCalls = 1
    /\ optionsResult.tag = "Ok"
    /\ 20 + optionsResult.val.len > BufLen
    /\ DeclaredTotalLength = BufLen
    /\ result = Err(SizeError)

====
